---- MODULE Spec2Model ----
(***************************************************************************)
(* The Escrow contract of contracts/Escrow.sol as a state machine.         *)
(*                                                                         *)
(* One action per external function.  A call is executed on a frame (a     *)
(* copy of the contract's storage, its balance and the logs); a failed     *)
(* require or a failed transfer reverts the call, which discards the       *)
(* frame.  Calls are serialized by the EVM, so every action is one call    *)
(* run to completion.                                                      *)
(*                                                                         *)
(* Amounts are uint256 wei.  Solidity 0.8 checks arithmetic, and the       *)
(* amounts an account can attach are far below 2^256 / 10000, so no        *)
(* product or sum of the contract wraps or reverts on overflow.            *)
(*                                                                         *)
(* The useEscrow hook of src/hooks/useEscrow.ts is the variable hook: its  *)
(* React state, what useWeb3() last gave it, which effects are due, and    *)
(* what its functions returned, showed and submitted.  The contract's      *)
(* actions leave it alone, and its actions leave the contract alone.       *)
(***************************************************************************)
EXTENDS Integers, Sequences, FiniteSets, TLC

(* ---------------------------------------------------------------- bounds *)
\* escrows created in a run
MaxEscrows == 1
\* escrows created in a run of the specifications of creation and of reading
MaxListed == 3

(* ----------------------------------------------------- program constants *)
FirstEscrowId == 1
DefaultFee == 250
FeeCap == 1000
BasisPoints == 10000
DAY == 86400
MaxDeliveryDays == 365

(* -------------------------------------------------------------- accounts *)
\* address(0)
Null == "0x0"
\* the deployer, msg.sender of the constructor
Deployer == "owner"
\* a contract account without a payable receive or fallback function:
\* `transfer` to it reverts
Vault == "vault"
Accounts == {Null, Deployer, "alice", "bob", Vault}
\* accounts that can be msg.sender
Callers == Accounts \ {Null}
NoReceive == {Vault}

(* ---------------------------------------------------- inputs of the calls *)
Buyers == {"alice"}
Sellers == {Null, "alice", "bob", Vault}
Values == {0, 100}
DeliveryDays == {1, 366}
Descriptions == {"book"}
Fees == {0, 1001}
Wallets == {Null, Vault}
TickSteps == {DAY}
\* ids a caller may pass: 0, the created ones, and one never created
Ids == 0 .. (MaxEscrows + 1)
LedgerIds == 0 .. (MaxListed + 1)
\* block.timestamp of the block of the deployment
DeployTimes == {0, 1000}

(* ----------------------------------------------------------------- types *)
PENDING == "PENDING"
DELIVERED == "DELIVERED"
REFUNDED == "REFUNDED"
DISPUTED == "DISPUTED"
EscrowStatus == {PENDING, DELIVERED, REFUNDED, DISPUTED}

\* the value of a mapping slot never written: every field zero
\* (status 0 is PENDING)
ZeroEscrow ==
    [buyer |-> Null, seller |-> Null, amount |-> 0, status |-> PENDING,
     createdAt |-> 0, deliveryDeadline |-> 0, itemDescription |-> "",
     buyerConfirmed |-> FALSE, sellerConfirmed |-> FALSE]

(* the revert reasons of the contract's require statements; by error class  *)
(* of the interface: NotFound is ErrNotExists; Forbidden is ErrOnlyOwner,    *)
(* ErrOnlyBuyer, ErrOnlyParticipant; InvalidState is ErrNotPending,          *)
(* ErrNotDisputed; TooEarly is ErrTooEarly; InvalidInput is ErrAmount,       *)
(* ErrSeller, ErrSameParty, ErrDays, ErrFee, ErrWallet                       *)
ErrOnlyOwner == "Only owner can call this function"
ErrOnlyBuyer == "Only buyer can call this function"
ErrOnlyParticipant == "Only buyer or seller can call this function"
ErrNotExists == "Escrow does not exist"
ErrNotPending == "Escrow is not pending"
ErrNotDisputed == "Escrow is not disputed"
ErrAmount == "Escrow amount must be greater than 0"
ErrSeller == "Invalid seller address"
ErrSameParty == "Buyer and seller cannot be the same"
ErrDays == "Invalid delivery days"
ErrTooEarly == "Cannot refund before delivery deadline"
ErrFee == "Fee cannot exceed 10%"
ErrWallet == "Invalid wallet address"
\* `transfer` reverted: recipient rejects the payment or the balance is short
ErrTransfer == "transfer failed"
OK == "ok"

(* ----------------------------------------------------------------- state *)
VARIABLES
    escrows,          \* mapping(uint256 => EscrowTransaction)
    nextEscrowId,
    platformFee,
    platformWallet,
    owner,
    balance,          \* address(this).balance
    now,              \* block.timestamp
    events,           \* per indexed topic escrowId, the records in the event log
    payouts,          \* per escrow id, the transfers made by calls on that id
    swept,            \* total sent to the owner by emergencyWithdraw
    last,             \* the latest call and how it ended
    hook              \* the state of a mounted useEscrow hook

ledger == <<escrows, nextEscrowId, platformFee, platformWallet, owner,
            balance, events, payouts, swept>>
vars == <<escrows, nextEscrowId, platformFee, platformWallet, owner,
          balance, now, events, payouts, swept, last, hook>>

\* what the sender of a call gets back: the function called and OK, or the
\* reason of the revert
Call(op) == [op |-> op, result |-> OK]

\* no call to report
Idle == Call("none")

\* constructor(_platformWallet): any address is accepted
(* ------------------------------------------------- the useEscrow hook *)
\* null of the frontend code
JsNull == "null"

\* const ESCROW_CONTRACT_ADDRESS = null
ESCROW_CONTRACT_ADDRESS == JsNull

\* what useWeb3() can hand to the hook
Signers == {JsNull, "signerA", "signerB"}
WalletAccounts == {JsNull, "alice", "bob"}

\* the hook after its first render, with useWeb3() giving signer s,
\* isConnected c and account a: the useState initial values; both effects
\* are due; nothing was returned, shown, submitted or loaded yet
Mount(s, c, a) ==
    [signer |-> s, isConnected |-> c, account |-> a,
     contract |-> JsNull, userEscrows |-> "empty", loading |-> FALSE,
     platformFee |-> "2.5", contractDeployed |-> FALSE,
     connectEffectDue |-> TRUE, loadEffectDue |-> TRUE,
     returned |-> [fn |-> "none", value |-> "none"],
     toast |-> "none", submitted |-> {}, setLoadingCalled |-> FALSE]

Init ==
    /\ escrows = [i \in Ids |-> ZeroEscrow]
    /\ nextEscrowId = FirstEscrowId
    /\ platformFee = DefaultFee
    /\ platformWallet = Deployer
    /\ owner = Deployer
    /\ balance = 0
    /\ now = 0
    /\ events = [i \in Ids |-> {}]
    /\ payouts = [i \in Ids |-> << >>]
    /\ swept = 0
    /\ last = Idle
    /\ hook = Mount(JsNull, FALSE, JsNull)

(* ---------------------------------------------------- execution of a call *)
\* the frame a call starts on: the current storage, balance and logs
Begin ==
    [escrows |-> escrows, nextEscrowId |-> nextEscrowId, balance |-> balance,
     events |-> events, payouts |-> payouts, swept |-> swept, ok |-> TRUE]

\* emit: add a record to the event log
Emit(f, e) == [f EXCEPT !.events[e.escrowId] = @ \cup {e}]

\* a transfer whose failure is ignored, as `send` without a check of its result
Transfer_Unchecked(f, id, to, amount) ==
    IF f.ok /\ amount <= f.balance /\ to \notin NoReceive
    THEN [f EXCEPT !.balance = @ - amount,
                   !.payouts[id] = Append(@, [to |-> to, amount |-> amount])]
    ELSE f

\* payable(to).transfer(amount) made by a call on escrow id: reverts when the
\* balance is short or the recipient does not accept the payment
Transfer(f, id, to, amount) ==
    IF f.ok /\ amount <= f.balance /\ to \notin NoReceive
    THEN [f EXCEPT !.balance = @ - amount,
                   !.payouts[id] = Append(@, [to |-> to, amount |-> amount])]
    ELSE [f EXCEPT !.ok = FALSE]

\* the call returns: the frame is committed, or the revert discards it
Commit(f, call) ==
    IF f.ok
    THEN /\ escrows' = f.escrows
         /\ nextEscrowId' = f.nextEscrowId
         /\ balance' = f.balance
         /\ events' = f.events
         /\ payouts' = f.payouts
         /\ swept' = f.swept
         /\ last' = [call EXCEPT !.result = OK]
         /\ UNCHANGED <<platformFee, platformWallet, owner, now, hook>>
    ELSE /\ last' = [call EXCEPT !.result = ErrTransfer]
         /\ UNCHANGED <<ledger, now, hook>>

\* a require failed: the call reverts with its reason
Revert(call, reason) ==
    /\ last' = [call EXCEPT !.result = reason]
    /\ UNCHANGED <<ledger, now, hook>>


(* ------------------------------------------------------------- modifiers *)
\* the first failing require of a list of <<condition, reason>>, or OK
RECURSIVE FirstFailure(_)
FirstFailure(checks) ==
    IF checks = << >> THEN OK
    ELSE IF ~Head(checks)[1] THEN Head(checks)[2]
    ELSE FirstFailure(Tail(checks))

onlyOwner(caller) == caller = owner
onlyBuyer(caller, id) == caller = escrows[id].buyer
\* the modifier letting the owner through as well
onlyParticipant_OrOwner(caller, id) ==
    caller = escrows[id].buyer \/ caller = escrows[id].seller \/ caller = owner

onlyParticipant(caller, id) ==
    caller = escrows[id].buyer \/ caller = escrows[id].seller
escrowExists(id) == id < nextEscrowId
\* the modifier without its require
escrowPending_Always(id) == TRUE

escrowPending(id) == escrows[id].status = PENDING

(* ---------------------------------------------------------- createEscrow *)
\* the test of deliveryDays with < 365 for <= 365
createEscrowGuard_Below365(caller, seller, value, days) ==
    FirstFailure(<< <<value > 0, ErrAmount>>,
                    <<seller # Null, ErrSeller>>,
                    <<seller # caller, ErrSameParty>>,
                    <<days > 0 /\ days < MaxDeliveryDays, ErrDays>> >>)

createEscrowGuard(caller, seller, value, days) ==
    FirstFailure(<< <<value > 0, ErrAmount>>,
                    <<seller # Null, ErrSeller>>,
                    <<seller # caller, ErrSameParty>>,
                    <<days > 0 /\ days <= MaxDeliveryDays, ErrDays>> >>)

\* a deadline counted from time 0 instead of block.timestamp
createEscrowFrame_DeadlineFromZero(caller, seller, value, desc, days) ==
    LET f0 == [Begin EXCEPT !.balance = @ + value]
        escrowId == f0.nextEscrowId
        f1 == [f0 EXCEPT !.nextEscrowId = @ + 1]
        deliveryDeadline == days * DAY
        f2 == [f1 EXCEPT !.escrows[escrowId] =
                 [buyer |-> caller, seller |-> seller, amount |-> value,
                  status |-> PENDING, createdAt |-> now,
                  deliveryDeadline |-> deliveryDeadline,
                  itemDescription |-> desc,
                  buyerConfirmed |-> FALSE, sellerConfirmed |-> FALSE]]
    IN Emit(f2, [type |-> "EscrowCreated", escrowId |-> escrowId,
                 buyer |-> caller, seller |-> seller, amount |-> value])

createEscrowFrame(caller, seller, value, desc, days) ==
    LET f0 == [Begin EXCEPT !.balance = @ + value]
        escrowId == f0.nextEscrowId
        f1 == [f0 EXCEPT !.nextEscrowId = @ + 1]
        deliveryDeadline == now + days * DAY
        f2 == [f1 EXCEPT !.escrows[escrowId] =
                 [buyer |-> caller, seller |-> seller, amount |-> value,
                  status |-> PENDING, createdAt |-> now,
                  deliveryDeadline |-> deliveryDeadline,
                  itemDescription |-> desc,
                  buyerConfirmed |-> FALSE, sellerConfirmed |-> FALSE]]
    IN Emit(f2, [type |-> "EscrowCreated", escrowId |-> escrowId,
                 buyer |-> caller, seller |-> seller, amount |-> value])

\* a rejected creation that has used up an id
createEscrow_RejectedTakesId(caller, seller, value, desc, days) ==
    LET call == Call("createEscrow")
        reason == createEscrowGuard(caller, seller, value, days)
    IN IF reason # OK
       THEN /\ last' = [call EXCEPT !.result = reason]
            /\ nextEscrowId' = nextEscrowId + 1
            /\ UNCHANGED <<escrows, platformFee, platformWallet, owner,
                           balance, now, hook, events, payouts, swept>>
       ELSE /\ nextEscrowId + 1 \in DOMAIN escrows
            /\ Commit(createEscrowFrame(caller, seller, value, desc, days),
                      [op |-> call.op, result |-> OK, value |-> nextEscrowId])

\* returns the id assigned; a creation is followed while the new id and one
\* id never created are in the part of the mapping that is kept
createEscrow(caller, seller, value, desc, days) ==
    LET call == Call("createEscrow")
        reason == createEscrowGuard(caller, seller, value, days)
    IN IF reason # OK THEN Revert(call, reason)
       ELSE /\ nextEscrowId + 1 \in DOMAIN escrows
            /\ Commit(createEscrowFrame(caller, seller, value, desc, days),
                      [op |-> call.op, result |-> OK, value |-> nextEscrowId])

(* -------------------------------------------------------- _completeEscrow *)
\* the fee rounded to the nearest unit instead of down
feeOf_RoundHalfUp(amount, fee) ==
    (amount * fee + BasisPoints \div 2) \div BasisPoints

feeOf(amount, fee) == (amount * fee) \div BasisPoints

\* a settlement that pays the seller and leaves the fee in the contract
completeEscrow_FeeKept(f, escrowId) ==
    LET f1 == [f EXCEPT !.escrows[escrowId].status = DELIVERED]
        escrow == f1.escrows[escrowId]
        feeAmount == feeOf(escrow.amount, platformFee)
        sellerAmount == escrow.amount - feeAmount
        f3 == Transfer(f1, escrowId, escrow.seller, sellerAmount)
    IN Emit(f3, [type |-> "EscrowCompleted", escrowId |-> escrowId,
                 sellerAmount |-> sellerAmount, platformFeeAmount |-> feeAmount])

completeEscrow(f, escrowId) ==
    LET f1 == [f EXCEPT !.escrows[escrowId].status = DELIVERED]
        escrow == f1.escrows[escrowId]
        feeAmount == feeOf(escrow.amount, platformFee)
        sellerAmount == escrow.amount - feeAmount
        f2 == IF feeAmount > 0
              THEN Transfer(f1, escrowId, platformWallet, feeAmount)
              ELSE f1
        f3 == Transfer(f2, escrowId, escrow.seller, sellerAmount)
    IN Emit(f3, [type |-> "EscrowCompleted", escrowId |-> escrowId,
                 sellerAmount |-> sellerAmount, platformFeeAmount |-> feeAmount])

(* ------------------------------------------------------- confirmDelivery *)
\* confirmDelivery without the escrowPending modifier
confirmDeliveryGuard_AnyStatus(caller, id) ==
    FirstFailure(<< <<escrowExists(id), ErrNotExists>>,
                    <<onlyParticipant(caller, id), ErrOnlyParticipant>> >>)

confirmDeliveryGuard(caller, id) ==
    FirstFailure(<< <<escrowExists(id), ErrNotExists>>,
                    <<escrowPending(id), ErrNotPending>>,
                    <<onlyParticipant(caller, id), ErrOnlyParticipant>> >>)

\* completion only when both parties have confirmed
confirmDeliveryFrame_BothMustConfirm(caller, id) ==
    LET f1 == IF caller = escrows[id].buyer
              THEN [Begin EXCEPT !.escrows[id].buyerConfirmed = TRUE]
              ELSE [Begin EXCEPT !.escrows[id].sellerConfirmed = TRUE]
        f2 == Emit(f1, [type |-> "DeliveryConfirmed", escrowId |-> id,
                        confirmer |-> caller])
        escrow == f2.escrows[id]
    IN IF escrow.buyerConfirmed /\ escrow.sellerConfirmed
       THEN completeEscrow(f2, id)
       ELSE f2

confirmDeliveryFrame(caller, id) ==
    LET f1 == IF caller = escrows[id].buyer
              THEN [Begin EXCEPT !.escrows[id].buyerConfirmed = TRUE]
              ELSE [Begin EXCEPT !.escrows[id].sellerConfirmed = TRUE]
        f2 == Emit(f1, [type |-> "DeliveryConfirmed", escrowId |-> id,
                        confirmer |-> caller])
        escrow == f2.escrows[id]
    IN IF escrow.buyerConfirmed
          \/ (escrow.buyerConfirmed /\ escrow.sellerConfirmed)
       THEN completeEscrow(f2, id)
       ELSE f2

confirmDelivery(caller, id) ==
    LET call == Call("confirmDelivery")
        reason == confirmDeliveryGuard(caller, id)
    IN IF reason # OK THEN Revert(call, reason)
       ELSE Commit(confirmDeliveryFrame(caller, id), call)

(* --------------------------------------------------------- requestRefund *)
\* a refund that is also open to the buyer of a DISPUTED escrow
requestRefundGuard_OrDisputed(caller, id) ==
    FirstFailure(<< <<escrowExists(id), ErrNotExists>>,
                    <<escrows[id].status \in {PENDING, DISPUTED}, ErrNotPending>>,
                    <<onlyBuyer(caller, id), ErrOnlyBuyer>>,
                    <<now > escrows[id].deliveryDeadline, ErrTooEarly>> >>)

\* the deadline test with >= for >
requestRefundGuard_AtDeadline(caller, id) ==
    FirstFailure(<< <<escrowExists(id), ErrNotExists>>,
                    <<escrowPending(id), ErrNotPending>>,
                    <<onlyBuyer(caller, id), ErrOnlyBuyer>>,
                    <<now >= escrows[id].deliveryDeadline, ErrTooEarly>> >>)

requestRefundGuard(caller, id) ==
    FirstFailure(<< <<escrowExists(id), ErrNotExists>>,
                    <<escrowPending(id), ErrNotPending>>,
                    <<onlyBuyer(caller, id), ErrOnlyBuyer>>,
                    <<now > escrows[id].deliveryDeadline, ErrTooEarly>> >>)

\* a refund that clears the amount of the record once it is paid
requestRefundFrame_ZeroesAmount(id) ==
    LET f1 == [Begin EXCEPT !.escrows[id].status = REFUNDED]
        escrow == f1.escrows[id]
        f2 == Transfer(f1, id, escrow.buyer, escrow.amount)
        f3 == [f2 EXCEPT !.escrows[id].amount = 0]
    IN Emit(f3, [type |-> "EscrowRefunded", escrowId |-> id,
                 refundAmount |-> escrow.amount])

\* a refund that keeps the platform fee
requestRefundFrame_WithFee(id) ==
    LET f1 == [Begin EXCEPT !.escrows[id].status = REFUNDED]
        escrow == f1.escrows[id]
        feeAmount == (escrow.amount * platformFee) \div BasisPoints
        f2 == Transfer(f1, id, platformWallet, feeAmount)
        f3 == Transfer(f2, id, escrow.buyer, escrow.amount - feeAmount)
    IN Emit(f3, [type |-> "EscrowRefunded", escrowId |-> id,
                 refundAmount |-> escrow.amount])

requestRefundFrame(id) ==
    LET f1 == [Begin EXCEPT !.escrows[id].status = REFUNDED]
        escrow == f1.escrows[id]
        f2 == Transfer(f1, id, escrow.buyer, escrow.amount)
    IN Emit(f2, [type |-> "EscrowRefunded", escrowId |-> id,
                 refundAmount |-> escrow.amount])

requestRefund(caller, id) ==
    LET call == Call("requestRefund")
        reason == requestRefundGuard(caller, id)
    IN IF reason # OK THEN Revert(call, reason)
       ELSE Commit(requestRefundFrame(id), call)

(* ---------------------------------------------------------- raiseDispute *)
raiseDisputeGuard(caller, id) ==
    FirstFailure(<< <<escrowExists(id), ErrNotExists>>,
                    <<escrowPending(id), ErrNotPending>>,
                    <<onlyParticipant(caller, id), ErrOnlyParticipant>> >>)

\* a dispute that also withdraws the confirmations given so far
raiseDisputeFrame_ClearsFlags(caller, id) ==
    LET f1 == [Begin EXCEPT !.escrows[id].status = DISPUTED,
                            !.escrows[id].buyerConfirmed = FALSE,
                            !.escrows[id].sellerConfirmed = FALSE]
    IN Emit(f1, [type |-> "DisputeRaised", escrowId |-> id, raiser |-> caller])

raiseDisputeFrame(caller, id) ==
    LET f1 == [Begin EXCEPT !.escrows[id].status = DISPUTED]
    IN Emit(f1, [type |-> "DisputeRaised", escrowId |-> id, raiser |-> caller])

raiseDispute(caller, id) ==
    LET call == Call("raiseDispute")
        reason == raiseDisputeGuard(caller, id)
    IN IF reason # OK THEN Revert(call, reason)
       ELSE Commit(raiseDisputeFrame(caller, id), call)

(* -------------------------------------------------------- resolveDispute *)
\* resolveDispute without the onlyOwner modifier
resolveDisputeGuard_AnyCaller(caller, id) ==
    FirstFailure(<< <<escrowExists(id), ErrNotExists>>,
                    <<escrows[id].status = DISPUTED, ErrNotDisputed>> >>)

resolveDisputeGuard(caller, id) ==
    FirstFailure(<< <<onlyOwner(caller), ErrOnlyOwner>>,
                    <<escrowExists(id), ErrNotExists>>,
                    <<escrows[id].status = DISPUTED, ErrNotDisputed>> >>)

\* resolveDispute with the two branches exchanged
resolveDisputeFrame_Inverted(id, refundToBuyer) ==
    IF ~refundToBuyer
    THEN LET f1 == [Begin EXCEPT !.escrows[id].status = REFUNDED]
             f2 == Transfer(f1, id, f1.escrows[id].buyer, f1.escrows[id].amount)
         IN Emit(f2, [type |-> "EscrowRefunded", escrowId |-> id,
                      refundAmount |-> f2.escrows[id].amount])
    ELSE completeEscrow(Begin, id)

\* a resolution whose refund branch emits no EscrowRefunded
resolveDisputeFrame_SilentRefund(id, refundToBuyer) ==
    IF refundToBuyer
    THEN LET f1 == [Begin EXCEPT !.escrows[id].status = REFUNDED]
         IN Transfer(f1, id, f1.escrows[id].buyer, f1.escrows[id].amount)
    ELSE completeEscrow(Begin, id)

resolveDisputeFrame(id, refundToBuyer) ==
    IF refundToBuyer
    THEN LET f1 == [Begin EXCEPT !.escrows[id].status = REFUNDED]
             f2 == Transfer(f1, id, f1.escrows[id].buyer, f1.escrows[id].amount)
         IN Emit(f2, [type |-> "EscrowRefunded", escrowId |-> id,
                      refundAmount |-> f2.escrows[id].amount])
    ELSE completeEscrow(Begin, id)

resolveDispute(caller, id, refundToBuyer) ==
    LET call == Call("resolveDispute")
        reason == resolveDisputeGuard(caller, id)
    IN IF reason # OK THEN Revert(call, reason)
       ELSE Commit(resolveDisputeFrame(id, refundToBuyer), call)

(* ------------------------------------------------------- admin functions *)
\* updatePlatformFee without the require on newFee
updatePlatformFee_NoCap(caller, newFee) ==
    LET call == Call("updatePlatformFee")
        reason == FirstFailure(<< <<onlyOwner(caller), ErrOnlyOwner>> >>)
    IN IF reason # OK THEN Revert(call, reason)
       ELSE /\ platformFee' = newFee
            /\ last' = call
            /\ UNCHANGED <<escrows, nextEscrowId, platformWallet, owner,
                           balance, now, hook, events, payouts, swept>>

updatePlatformFee(caller, newFee) ==
    LET call == Call("updatePlatformFee")
        reason == FirstFailure(<< <<onlyOwner(caller), ErrOnlyOwner>>,
                                  <<newFee <= FeeCap, ErrFee>> >>)
    IN IF reason # OK THEN Revert(call, reason)
       ELSE /\ platformFee' = newFee
            /\ last' = call
            /\ UNCHANGED <<escrows, nextEscrowId, platformWallet, owner,
                           balance, now, hook, events, payouts, swept>>

\* updatePlatformWallet without the onlyOwner modifier
updatePlatformWallet_AnyCaller(caller, newWallet) ==
    LET call == Call("updatePlatformWallet")
        reason == FirstFailure(<< <<newWallet # Null, ErrWallet>> >>)
    IN IF reason # OK THEN Revert(call, reason)
       ELSE /\ platformWallet' = newWallet
            /\ last' = call
            /\ UNCHANGED <<escrows, nextEscrowId, platformFee, owner,
                           balance, now, hook, events, payouts, swept>>

updatePlatformWallet(caller, newWallet) ==
    LET call == Call("updatePlatformWallet")
        reason == FirstFailure(<< <<onlyOwner(caller), ErrOnlyOwner>>,
                                  <<newWallet # Null, ErrWallet>> >>)
    IN IF reason # OK THEN Revert(call, reason)
       ELSE /\ platformWallet' = newWallet
            /\ last' = call
            /\ UNCHANGED <<escrows, nextEscrowId, platformFee, owner,
                           balance, now, hook, events, payouts, swept>>

\* payable(owner).transfer(address(this).balance)
emergencyWithdrawFrame ==
    IF owner \notin NoReceive
    THEN [Begin EXCEPT !.balance = 0, !.swept = @ + balance]
    ELSE [Begin EXCEPT !.ok = FALSE]

emergencyWithdraw(caller) ==
    LET call == Call("emergencyWithdraw")
        reason == FirstFailure(<< <<onlyOwner(caller), ErrOnlyOwner>> >>)
    IN IF reason # OK THEN Revert(call, reason)
       ELSE Commit(emergencyWithdrawFrame, call)

(* -------------------------------------------------------- view functions *)
\* a view returns: nothing is written
Return(call, value) ==
    /\ last' = [op |-> call.op, result |-> OK, value |-> value]
    /\ UNCHANGED <<ledger, now, hook>>

getEscrow(id) ==
    LET call == Call("getEscrow")
        reason == FirstFailure(<< <<escrowExists(id), ErrNotExists>> >>)
    IN IF reason # OK THEN Revert(call, reason)
       ELSE Return(call, escrows[id])

isDeliveryOverdue(id) ==
    LET call == Call("isDeliveryOverdue")
        reason == FirstFailure(<< <<escrowExists(id), ErrNotExists>> >>)
    IN IF reason # OK THEN Revert(call, reason)
       ELSE Return(call, now > escrows[id].deliveryDeadline)

\* the first loop of getUserEscrows, from index i on: userEscrows is the array
\* of nextEscrowId - 1 slots and count the number of slots filled
RECURSIVE collectUserEscrows(_, _, _, _)
collectUserEscrows(user, i, userEscrows, count) ==
    IF ~(i < nextEscrowId) THEN [userEscrows |-> userEscrows, count |-> count]
    ELSE IF escrows[i].buyer = user \/ escrows[i].seller = user
    THEN collectUserEscrows(user, i + 1,
                            [userEscrows EXCEPT ![count + 1] = i], count + 1)
    ELSE collectUserEscrows(user, i + 1, userEscrows, count)

\* the listing of the buyer's escrows only
getUserEscrowsResult_BuyerOnly(user) ==
    LET ids == {i \in FirstEscrowId .. (nextEscrowId - 1) : escrows[i].buyer = user}
        filled == collectUserEscrows(user, FirstEscrowId,
                                     [k \in 1 .. (nextEscrowId - 1) |-> 0], 0)
    IN SelectSeq([k \in 1 .. filled.count |-> filled.userEscrows[k]],
                 LAMBDA i : i \in ids)

\* the array getUserEscrows returns: the filled slots, copied
getUserEscrowsResult(user) ==
    LET filled == collectUserEscrows(user, FirstEscrowId,
                                     [k \in 1 .. (nextEscrowId - 1) |-> 0], 0)
    IN [k \in 1 .. filled.count |-> filled.userEscrows[k]]

getUserEscrows(user) == Return(Call("getUserEscrows"), getUserEscrowsResult(user))

(* ------------------------------------------------------------------ time *)
\* a later block: block.timestamp grows.  The contract reads the time only to
\* set a deadline and to compare with one, so time is followed up to the
\* first block after the latest deadline of an escrow.
Tick(d) ==
    /\ \E i \in FirstEscrowId .. (nextEscrowId - 1) :
          now <= escrows[i].deliveryDeadline
    /\ now' = now + d
    /\ UNCHANGED <<ledger, last, hook>>

(* ------------------------------------------------------------------ spec *)
\* the sender has read the outcome of its call; the next call can be sent
Acknowledge ==
    /\ last # Idle
    /\ last' = Idle
    /\ UNCHANGED <<ledger, now, hook>>

Ready == last = Idle

CreateEscrow ==
    /\ Ready
    /\ \E c \in Buyers, s \in Sellers, v \in Values, t \in Descriptions,
          d \in DeliveryDays : createEscrow(c, s, v, t, d)

ConfirmDelivery == Ready /\ \E c \in Callers, i \in Ids : confirmDelivery(c, i)

RequestRefund == Ready /\ \E c \in Callers, i \in Ids : requestRefund(c, i)

RaiseDispute == Ready /\ \E c \in Callers, i \in Ids : raiseDispute(c, i)

ResolveDispute ==
    Ready /\ \E c \in Callers, i \in Ids, b \in BOOLEAN : resolveDispute(c, i, b)

UpdatePlatformFee == Ready /\ \E c \in Callers, n \in Fees : updatePlatformFee(c, n)

UpdatePlatformWallet ==
    Ready /\ \E c \in Callers, w \in Wallets : updatePlatformWallet(c, w)

EmergencyWithdraw == Ready /\ \E c \in Callers : emergencyWithdraw(c)

NextBlock == Ready /\ \E d \in TickSteps : Tick(d)

Next ==
    \/ Acknowledge
    \/ CreateEscrow
    \/ ConfirmDelivery
    \/ RequestRefund
    \/ RaiseDispute
    \/ ResolveDispute
    \/ UpdatePlatformFee
    \/ UpdatePlatformWallet
    \/ EmergencyWithdraw
    \/ NextBlock

Spec == Init /\ [][Next]_vars

(* A second specification for the arithmetic of the settlement: one escrow,  *)
(* created at the default rate, with many amounts, and settled after the     *)
(* owner has set one of many rates.                                          *)
SettleValues == {1, 39, 40, 41, 100, 9999, 10000, 10001}
SettleFees == {0, 1, 249, 999, 1000, 1001}

SettleCreate ==
    /\ Ready
    /\ nextEscrowId = FirstEscrowId
    /\ \E v \in SettleValues, t \in Descriptions :
         createEscrow("alice", "bob", v, t, 1)

SettleUpdateFee ==
    /\ Ready
    /\ nextEscrowId > FirstEscrowId
    /\ \E n \in SettleFees : updatePlatformFee(owner, n)

SettleConfirm ==
    Ready /\ \E c \in {"alice", "bob"} : confirmDelivery(c, FirstEscrowId)

SettleDispute ==
    Ready /\ \E c \in {"alice", "bob"} : raiseDispute(c, FirstEscrowId)

SettleResolve ==
    Ready /\ \E b \in BOOLEAN : resolveDispute(owner, FirstEscrowId, b)

NextSettle ==
    \/ Acknowledge
    \/ SettleCreate
    \/ SettleUpdateFee
    \/ SettleConfirm
    \/ SettleDispute
    \/ SettleResolve

SpecSettle == Init /\ [][NextSettle]_vars

(* A third specification for the owner's functions: every caller, rates on  *)
(* both sides of the cap, fee recipients of every kind, and one deposit to  *)
(* withdraw.                                                                *)
AdminFees == {0, 250, 1000, 1001}
AdminWallets == {Null, "alice", Vault}

AdminCreate ==
    Ready /\ \E t \in Descriptions : createEscrow("alice", "bob", 100, t, 1)

AdminUpdateFee ==
    Ready /\ \E c \in Callers, n \in AdminFees : updatePlatformFee(c, n)

AdminUpdateWallet ==
    Ready /\ \E c \in Callers, w \in AdminWallets : updatePlatformWallet(c, w)

AdminWithdraw == Ready /\ \E c \in Callers : emergencyWithdraw(c)

NextAdmin ==
    \/ Acknowledge
    \/ AdminCreate
    \/ AdminUpdateFee
    \/ AdminUpdateWallet
    \/ AdminWithdraw

SpecAdmin == Init /\ [][NextAdmin]_vars

(* A fourth specification for createEscrow alone: deployed at any time, and  *)
(* called by two accounts with every kind of argument the requires tell      *)
(* apart.                                                                    *)
InitLedger ==
    /\ escrows = [i \in LedgerIds |-> ZeroEscrow]
    /\ nextEscrowId = FirstEscrowId
    /\ platformFee = DefaultFee
    /\ platformWallet = Deployer
    /\ owner = Deployer
    /\ balance = 0
    /\ now \in DeployTimes
    /\ events = [i \in LedgerIds |-> {}]
    /\ payouts = [i \in LedgerIds |-> << >>]
    /\ swept = 0
    /\ last = Idle
    /\ hook = Mount(JsNull, FALSE, JsNull)

CreateCallers == {"alice", "bob"}
CreateSellers == {Null, "alice", "bob", Vault}
CreateValues == {0, 100}
CreateDays == {0, 1, 365, 366}

CreateAny ==
    /\ Ready
    /\ \E c \in CreateCallers, s \in CreateSellers, v \in CreateValues,
          t \in Descriptions, d \in CreateDays : createEscrow(c, s, v, t, d)

NextCreate ==
    \/ Acknowledge
    \/ CreateAny

SpecCreate == InitLedger /\ [][NextCreate]_vars

(* A fifth specification for the reading functions: several escrows among    *)
(* three accounts, some of them disputed, read by id and by participant.     *)
ListedSellers == {"alice", "bob", Vault}
Users == Accounts

LedgerCreate ==
    /\ Ready
    /\ \E c \in CreateCallers, s \in ListedSellers, t \in Descriptions :
         createEscrow(c, s, 100, t, 1)

LedgerDispute ==
    Ready /\ \E c \in CreateCallers, i \in LedgerIds : raiseDispute(c, i)

GetEscrow == Ready /\ \E i \in LedgerIds : getEscrow(i)

IsDeliveryOverdue == Ready /\ \E i \in LedgerIds : isDeliveryOverdue(i)

GetUserEscrows == Ready /\ \E u \in Users : getUserEscrows(u)

NextLedger ==
    \/ Acknowledge
    \/ LedgerCreate
    \/ LedgerDispute
    \/ GetEscrow
    \/ IsDeliveryOverdue
    \/ GetUserEscrows

SpecLedger == InitLedger /\ [][NextLedger]_vars

(* ===================================================================== *)
(* The contract without emergencyWithdraw: every other state-changing     *)
(* function, with deposits of several sizes and fee rates up to the cap   *)
(* ===================================================================== *)
FundsSellers == {"bob"}
FundsValues == {0, 39, 100}
FundsFees == {0, 1000, 1001}

FundsCreate ==
    /\ Ready
    /\ \E c \in Buyers, s \in FundsSellers, v \in FundsValues,
          t \in Descriptions, d \in DeliveryDays : createEscrow(c, s, v, t, d)

FundsUpdateFee ==
    Ready /\ \E c \in Callers, n \in FundsFees : updatePlatformFee(c, n)

FundsUpdateWallet ==
    Ready /\ \E c \in Callers, w \in Wallets : updatePlatformWallet(c, w)

FundsConfirm == Ready /\ \E c \in Callers, i \in Ids : confirmDelivery(c, i)

FundsRefund == Ready /\ \E c \in Callers, i \in Ids : requestRefund(c, i)

FundsDispute == Ready /\ \E c \in Callers, i \in Ids : raiseDispute(c, i)

FundsResolve ==
    Ready /\ \E c \in Callers, i \in Ids, b \in BOOLEAN : resolveDispute(c, i, b)

FundsNextBlock == Ready /\ \E d \in TickSteps : Tick(d)

NextFunds ==
    \/ Acknowledge
    \/ FundsCreate
    \/ FundsConfirm
    \/ FundsRefund
    \/ FundsDispute
    \/ FundsResolve
    \/ FundsUpdateFee
    \/ FundsUpdateWallet
    \/ FundsNextBlock

SpecFunds == Init /\ [][NextFunds]_vars

(* ===================================================================== *)
(* A fresh contract at the default fee rate: deposits with a delivery     *)
(* time of a week, and their confirmation                                 *)
(* ===================================================================== *)
WeekSellers == {"bob", Vault}
WeekValues == {40, 100, 10000}
WeekDays == {7}

WeekCreate ==
    /\ Ready
    /\ \E c \in Buyers, s \in WeekSellers, v \in WeekValues,
          t \in Descriptions, d \in WeekDays : createEscrow(c, s, v, t, d)

WeekConfirm == Ready /\ \E c \in Callers, i \in Ids : confirmDelivery(c, i)

WeekNextBlock == Ready /\ \E d \in TickSteps : Tick(d)

NextWeek ==
    \/ Acknowledge
    \/ WeekCreate
    \/ WeekConfirm
    \/ WeekNextBlock

SpecWeek == Init /\ [][NextWeek]_vars

(* ===================================================================== *)
(* The constructor with any argument: the contract deployed with each     *)
(* address as _platformWallet, then deposits, settlements and updates of  *)
(* the platform account                                                   *)
(* ===================================================================== *)
ConstructorWallets == {Null, Deployer, "bob"}
DeployFees == {0, 250}

\* constructor(_platformWallet), sent by Deployer
InitDeploy ==
    /\ escrows = [i \in Ids |-> ZeroEscrow]
    /\ nextEscrowId = FirstEscrowId
    /\ platformFee = DefaultFee
    /\ platformWallet \in ConstructorWallets
    /\ owner = Deployer
    /\ balance = 0
    /\ now = 0
    /\ events = [i \in Ids |-> {}]
    /\ payouts = [i \in Ids |-> << >>]
    /\ swept = 0
    /\ last = Idle
    /\ hook = Mount(JsNull, FALSE, JsNull)

DeployCreate ==
    /\ Ready
    /\ \E c \in Buyers, s \in Sellers, v \in Values, t \in Descriptions,
          d \in DeliveryDays : createEscrow(c, s, v, t, d)

DeployConfirm == Ready /\ \E c \in Callers, i \in Ids : confirmDelivery(c, i)

DeployUpdateFee ==
    Ready /\ \E c \in Callers, n \in DeployFees : updatePlatformFee(c, n)

DeployUpdateWallet ==
    Ready /\ \E c \in Callers, w \in Wallets : updatePlatformWallet(c, w)

NextDeploy ==
    \/ Acknowledge
    \/ DeployCreate
    \/ DeployConfirm
    \/ DeployUpdateFee
    \/ DeployUpdateWallet

SpecDeploy == InitDeploy /\ [][NextDeploy]_vars

(* ===================================================================== *)
(* The useEscrow hook: the wallet connects, disconnects and changes       *)
(* signer, the effects run, and the page calls the functions of the hook  *)
(* ===================================================================== *)
\* if (!contract || !contractDeployed)
Unavailable(h) == h.contract = JsNull \/ ~h.contractDeployed

\* loadPlatformFee: the fee read from the contract, or the default kept
loadPlatformFee(h) ==
    {[h EXCEPT !.platformFee = "fromContract"],
     [h EXCEPT !.toast = "Using default platform fee of 2.5%"]}

\* loadUserEscrows: returns at once without contract, account or deployment;
\* else setLoading(true), the reads, and setLoading(false) in finally
loadUserEscrows(h) ==
    IF h.contract = JsNull \/ h.account = JsNull \/ ~h.contractDeployed
    THEN {h}
    ELSE {[h EXCEPT !.setLoadingCalled = TRUE, !.loading = FALSE,
                    !.userEscrows = "loaded"],
          [h EXCEPT !.setLoadingCalled = TRUE, !.loading = FALSE,
                    !.toast = "Failed to load escrow transactions."]}

\* the body of a function of the hook that sends a transaction: refused when
\* the contract is unavailable; else the call throws before or after the
\* transaction is submitted, or it is mined and the list is reloaded
SendTransaction(h, fn, refusal, done, undone) ==
    IF Unavailable(h)
    THEN {[h EXCEPT !.toast = refusal, !.returned = [fn |-> fn, value |-> undone]]}
    ELSE {[h EXCEPT !.toast = "failed", !.returned = [fn |-> fn, value |-> undone]],
          [h EXCEPT !.toast = "failed", !.submitted = @ \cup {fn},
                    !.returned = [fn |-> fn, value |-> undone]]}
         \cup
         UNION {{[g EXCEPT !.returned = [fn |-> fn, value |-> v]] :
                    g \in loadUserEscrows([h EXCEPT !.toast = "success",
                                                    !.submitted = @ \cup {fn}])} :
                v \in done}

\* a step of the hook: the contract is not involved
HookStep(hs) ==
    /\ hook' \in hs
    /\ UNCHANGED <<ledger, now, last>>

\* useWeb3() gives new values: a connect, a disconnect, a change of signer
\* or of account; the effects whose dependencies changed are due
web3Change(s, c, a) ==
    /\ <<s, c, a>> # <<hook.signer, hook.isConnected, hook.account>>
    /\ HookStep({[hook EXCEPT
                    !.signer = s, !.isConnected = c, !.account = a,
                    !.connectEffectDue = @ \/ s # hook.signer
                                           \/ c # hook.isConnected,
                    !.loadEffectDue = @ \/ a # hook.account]})

\* the first effect without the test of ESCROW_CONTRACT_ADDRESS: a Contract
\* object is made whenever a signer is connected
connectEffect_NoAddressTest ==
    /\ hook.connectEffectDue
    /\ LET h == [hook EXCEPT !.connectEffectDue = FALSE]
       IN IF h.signer # JsNull /\ h.isConnected
          THEN HookStep(loadPlatformFee(
                   [h EXCEPT !.contract = "Contract",
                             !.contractDeployed = TRUE,
                             !.loadEffectDue = @ \/ hook.contract = JsNull
                                                 \/ ~hook.contractDeployed]))
          ELSE HookStep({[h EXCEPT
                   !.contract = JsNull,
                   !.contractDeployed = FALSE,
                   !.loadEffectDue = @ \/ hook.contract # JsNull
                                       \/ hook.contractDeployed]})

\* useEffect(..., [signer, isConnected])
connectEffect ==
    /\ hook.connectEffectDue
    /\ LET h == [hook EXCEPT !.connectEffectDue = FALSE]
       IN IF h.signer # JsNull /\ h.isConnected
             /\ ESCROW_CONTRACT_ADDRESS # JsNull
          THEN HookStep(loadPlatformFee(
                   [h EXCEPT !.contract = ESCROW_CONTRACT_ADDRESS,
                             !.contractDeployed = TRUE,
                             !.loadEffectDue = @ \/ hook.contract = JsNull
                                                 \/ ~hook.contractDeployed]))
          ELSE HookStep({[h EXCEPT
                   !.contract = JsNull,
                   !.contractDeployed = FALSE,
                   !.loadEffectDue = @ \/ hook.contract # JsNull
                                       \/ hook.contractDeployed,
                   !.toast = IF h.isConnected /\ ESCROW_CONTRACT_ADDRESS = JsNull
                             THEN "Smart contract not deployed."
                             ELSE @]})

\* useEffect(..., [contract, account, contractDeployed])
loadEffect ==
    /\ hook.loadEffectDue
    /\ LET h == [hook EXCEPT !.loadEffectDue = FALSE]
       IN IF h.contract # JsNull /\ h.account # JsNull /\ h.contractDeployed
          THEN HookStep(loadUserEscrows(h))
          ELSE HookStep({h})

hookCreateEscrow ==
    HookStep(SendTransaction(hook, "createEscrow",
                             "Smart contract not available. Please deploy.",
                             {"escrowId", JsNull}, JsNull))

hookConfirmDelivery ==
    HookStep(SendTransaction(hook, "confirmDelivery",
                             "Smart contract not available.", {"true"}, "false"))

hookRequestRefund ==
    HookStep(SendTransaction(hook, "requestRefund",
                             "Smart contract not available.", {"true"}, "false"))

hookRaiseDispute ==
    HookStep(SendTransaction(hook, "raiseDispute",
                             "Smart contract not available.", {"true"}, "false"))

\* getEscrowById: null without a contract, else the record read or null
getEscrowById ==
    HookStep({[hook EXCEPT !.returned = [fn |-> "getEscrowById", value |-> v]] :
                 v \in IF Unavailable(hook) THEN {JsNull}
                        ELSE {"escrow", JsNull}})

\* loadUserEscrows called by the page
hookLoadUserEscrows ==
    HookStep({[h EXCEPT !.returned = [fn |-> "loadUserEscrows",
                                      value |-> "undefined"]] :
                 h \in loadUserEscrows(hook)})

Web3Change ==
    \E s \in Signers, c \in BOOLEAN, a \in WalletAccounts : web3Change(s, c, a)

InitHook ==
    /\ escrows = [i \in Ids |-> ZeroEscrow]
    /\ nextEscrowId = FirstEscrowId
    /\ platformFee = DefaultFee
    /\ platformWallet = Deployer
    /\ owner = Deployer
    /\ balance = 0
    /\ now = 0
    /\ events = [i \in Ids |-> {}]
    /\ payouts = [i \in Ids |-> << >>]
    /\ swept = 0
    /\ last = Idle
    /\ \E s \in Signers, c \in BOOLEAN, a \in WalletAccounts :
         hook = Mount(s, c, a)

NextHook ==
    \/ Web3Change
    \/ connectEffect
    \/ loadEffect
    \/ hookCreateEscrow
    \/ hookConfirmDelivery
    \/ hookRequestRefund
    \/ hookRaiseDispute
    \/ getEscrowById
    \/ hookLoadUserEscrows

SpecHook == InitHook /\ [][NextHook]_vars

(* ===================================================================== *)
(* Properties                                                            *)
(* ===================================================================== *)
\* the ids that createEscrow has assigned
Created == FirstEscrowId .. (nextEscrowId - 1)

RECURSIVE SumAmounts(_, _)
SumAmounts(es, ids) ==
    IF ids = {} THEN 0
    ELSE LET i == CHOOSE x \in ids : TRUE
         IN es[i].amount + SumAmounts(es, ids \ {i})

\* the deposits of the escrows that are neither settled nor refunded
Held(es, ids) ==
    SumAmounts(es, {i \in ids : es[i].status \in {PENDING, DISPUTED}})

\* floor(amount * bps / 10000), by its defining inequalities
FloorFee(amount, bps) ==
    CHOOSE f \in 0 .. amount :
        f * BasisPoints <= amount * bps /\ amount * bps < (f + 1) * BasisPoints

\* the transfers of a settlement of escrow e at rate bps to platform account w
SplitOf(e, bps, w) ==
    LET fee == FloorFee(e.amount, bps)
    IN (IF fee > 0 THEN << [to |-> w, amount |-> fee] >> ELSE << >>)
       \o << [to |-> e.seller, amount |-> e.amount - fee] >>

\* the transfer of a refund of escrow e
RefundOf(e) == << [to |-> e.buyer, amount |-> e.amount] >>

HasEvent(type, id) ==
    \E e \in events[id] : e.type = type

(* ------------------------------------------------------------------ C1 *)
AllowedMoves ==
    {<<PENDING, DELIVERED>>, <<PENDING, REFUNDED>>, <<PENDING, DISPUTED>>,
     <<DISPUTED, DELIVERED>>, <<DISPUTED, REFUNDED>>}

\* C1: in every step of every run, an escrow whose status changes makes one of
\* the moves PENDING->DELIVERED, PENDING->REFUNDED, PENDING->DISPUTED,
\* DISPUTED->DELIVERED, DISPUTED->REFUNDED; so DELIVERED and REFUNDED are kept
\* forever.
C1_StatusMoves ==
    [][\A i \in Ids :
          escrows'[i].status # escrows[i].status
          => <<escrows[i].status, escrows'[i].status>> \in AllowedMoves]_vars

\* an escrow that went PENDING -> DISPUTED -> DELIVERED
C1_Witness ==
    \E i \in Created : escrows[i].status = DELIVERED /\ HasEvent("DisputeRaised", i)

(* ------------------------------------------------------------------ C2 *)
\* the transfers the calls on escrow i have made are those its status allows:
\* none while PENDING or DISPUTED, one refund to the buyer when REFUNDED, one
\* split to platform account and seller when DELIVERED
PaidAsStatus(i) ==
    LET e == escrows[i]
        total == IF payouts[i] = << >> THEN 0
                 ELSE IF Len(payouts[i]) = 1 THEN payouts[i][1].amount
                 ELSE payouts[i][1].amount + payouts[i][2].amount
    IN CASE e.status \in {PENDING, DISPUTED} -> payouts[i] = << >>
         [] e.status = REFUNDED -> payouts[i] = RefundOf(e)
         [] e.status = DELIVERED ->
              /\ Len(payouts[i]) \in {1, 2}
              /\ total = e.amount
              /\ payouts[i][Len(payouts[i])].to = e.seller

\* C2: the deposit of an escrow leaves the contract at most once, to the buyer
\* or to seller and platform account, and never while the escrow is PENDING or
\* DISPUTED: the contract holds the deposits of all PENDING and DISPUTED
\* escrows, and nothing was paid to any other account.
C2_FundsMoveOnce ==
    /\ \A i \in Created : PaidAsStatus(i)
    /\ balance >= Held(escrows, Created)
    /\ swept = 0

(* ------------------------------------------------------------------ C6 *)
\* C6: after a committed emergencyWithdraw the contract still holds at least
\* the deposits of all PENDING and DISPUTED escrows.
C6_WithdrawKeepsDeposits ==
    [][(last'.op = "emergencyWithdraw" /\ last'.result = OK)
       => balance' >= Held(escrows', Created')]_vars

(* ------------------------------------------------------------------ C7 *)
PaidTotal(p) ==
    IF p = << >> THEN 0
    ELSE IF Len(p) = 1 THEN p[1].amount
    ELSE p[1].amount + p[2].amount

\* C7: a call that is rejected, by a require or by a failed transfer, leaves
\* records, nextEscrowId, fee configuration, balances and event log as they
\* were; and no step leaves an escrow DELIVERED with less than its whole
\* amount paid out.
C7_RejectedCallsDiscarded ==
    [][/\ (last' # Idle /\ last'.result # OK) => UNCHANGED ledger
       /\ \A i \in Ids :
            escrows'[i].status = DELIVERED
            => PaidTotal(payouts'[i]) = escrows'[i].amount]_vars

\* a buyer's confirmDelivery reverted in the seller's transfer, after the
\* transfer of the fee had gone through
C7_Witness ==
    /\ last = [op |-> "confirmDelivery", result |-> ErrTransfer]
    /\ nextEscrowId = FirstEscrowId + 1
    /\ escrows[FirstEscrowId].status = PENDING
    /\ escrows[FirstEscrowId].seller \in NoReceive
    /\ platformWallet \notin NoReceive
    /\ feeOf(escrows[FirstEscrowId].amount, platformFee) > 0
    /\ balance >= escrows[FirstEscrowId].amount
    /\ payouts[FirstEscrowId] = << >>

(* ------------------------------------------------------------------ C3 *)
\* what a call on escrow i leaves alone when it moves no funds
NoFundsMoved == balance' = balance /\ payouts' = payouts /\ swept' = swept

\* the effect of a settlement of escrow i in a step
SettledInStep(i) ==
    /\ escrows'[i].status = DELIVERED
    /\ payouts'[i] = SplitOf(escrows[i], platformFee, platformWallet)
    /\ balance' = balance - escrows[i].amount

SellerConfirmOnly(c, i) ==
    (c = escrows[i].seller)
    => /\ last'.result = OK
       /\ escrows' = [escrows EXCEPT ![i].sellerConfirmed = TRUE]
       /\ escrows'[i].status = PENDING
       /\ NoFundsMoved

\* C3 as amended: on a PENDING escrow a seller's confirmDelivery sets
\* sellerConfirmed, leaves the status PENDING and moves no funds; a buyer's
\* confirmDelivery, seller confirmed or not, either settles the escrow in the
\* same call (status DELIVERED, buyerConfirmed set, fee and seller paid) or,
\* when a transfer of the settlement fails, is rejected with nothing changed.
C3_BuyerAloneReleases ==
    [][(last'.op = "confirmDelivery")
       => \A c \in Callers, i \in Created :
            (escrows[i].status = PENDING /\ confirmDelivery(c, i))
            => /\ SellerConfirmOnly(c, i)
               /\ (c = escrows[i].buyer)
                  => \/ /\ last'.result = OK
                        /\ escrows'[i].buyerConfirmed
                        /\ escrows'[i].sellerConfirmed = escrows[i].sellerConfirmed
                        /\ SettledInStep(i)
                     \/ /\ last'.result = ErrTransfer
                        /\ UNCHANGED ledger]_vars

\* C3 as stated: a buyer's confirmDelivery on a PENDING escrow always
\* completes it in the same call.
C3_Original ==
    [][(last'.op = "confirmDelivery")
       => \A c \in Callers, i \in Created :
            (escrows[i].status = PENDING /\ confirmDelivery(c, i))
            => /\ SellerConfirmOnly(c, i)
               /\ (c = escrows[i].buyer)
                  => /\ last'.result = OK
                     /\ escrows'[i].buyerConfirmed
                     /\ SettledInStep(i)]_vars

\* the seller confirmed, the escrow stayed PENDING, and the buyer's call then
\* settled it
C3_Witness ==
    /\ last = [op |-> "confirmDelivery", result |-> OK]
    /\ \E i \in Created :
         /\ escrows[i].status = DELIVERED
         /\ escrows[i].buyerConfirmed /\ escrows[i].sellerConfirmed
         /\ payouts[i] # << >>

(* ------------------------------------------------------------------ C4 *)
\* C4, for buyers that accept payments: requestRefund by the buyer of a
\* PENDING escrow strictly after its deliveryDeadline commits, the status
\* becomes REFUNDED and the buyer receives the amount.
C4_OverdueRefundSucceeds ==
    [][(last'.op = "requestRefund")
       => \A c \in Callers \ NoReceive, i \in Created :
            (/\ escrows[i].status = PENDING
             /\ c = escrows[i].buyer
             /\ now > escrows[i].deliveryDeadline
             /\ requestRefund(c, i))
            => /\ last'.result = OK
               /\ escrows'[i].status = REFUNDED
               /\ payouts'[i] = RefundOf(escrows[i])]_vars

C8_FeeSplit ==
    [][\A i \in Created :
         (escrows[i].status # DELIVERED /\ escrows'[i].status = DELIVERED)
         => LET amount == escrows[i].amount
                feeAmount == FloorFee(amount, platformFee)
                sellerAmount == amount - feeAmount
                paid == payouts'[i]
            IN /\ feeAmount + sellerAmount = amount
               /\ paid[Len(paid)] = [to |-> escrows[i].seller, amount |-> sellerAmount]
               /\ IF feeAmount = 0
                  THEN Len(paid) = 1
                  ELSE /\ Len(paid) = 2
                       /\ paid[1] = [to |-> platformWallet, amount |-> feeAmount]
               /\ [type |-> "EscrowCompleted", escrowId |-> i,
                   sellerAmount |-> sellerAmount,
                   platformFeeAmount |-> feeAmount] \in events'[i] \ events[i]]_vars

\* an escrow created at the default rate and settled at another one, where the
\* division leaves a remainder
C8_Witness ==
    /\ escrows[FirstEscrowId].status = DELIVERED
    /\ platformFee = 999
    /\ escrows[FirstEscrowId].amount = 10001
    /\ payouts[FirstEscrowId] = << [to |-> platformWallet, amount |-> 999],
                                   [to |-> "bob", amount |-> 9002] >>

(* ------------------------------------------------------------------ C9 *)
\* C9: resolveDispute commits only for the owner on a DISPUTED escrow; by any
\* other caller it reverts as Forbidden ("Only owner ..."), by the owner on a
\* PENDING, DELIVERED or REFUNDED escrow as InvalidState ("Escrow is not
\* disputed"), and then nothing changes.
C9_ResolveGuards ==
    [][(last'.op = "resolveDispute")
       => /\ (last'.result = OK)
             => \A c \in Callers, i \in Ids, b \in BOOLEAN :
                  resolveDispute(c, i, b)
                  => (c = owner /\ i \in Created /\ escrows[i].status = DISPUTED)
          /\ (\E c \in Callers \ {owner}, i \in Ids, b \in BOOLEAN :
                 resolveDispute(c, i, b))
             => (last'.result = ErrOnlyOwner /\ UNCHANGED ledger)
          /\ \A i \in Created, b \in BOOLEAN :
               (escrows[i].status # DISPUTED /\ resolveDispute(owner, i, b))
               => (last'.result = ErrNotDisputed /\ UNCHANGED ledger)]_vars

\* the buyer of a DISPUTED escrow tried to resolve the dispute itself
C9_Witness ==
    /\ last = [op |-> "resolveDispute", result |-> ErrOnlyOwner]
    /\ \E i \in Created : escrows[i].status = DISPUTED

(* ----------------------------------------------------------------- C10 *)
ResolvedInStep(i, refundToBuyer) ==
    /\ last'.result = OK
    /\ balance' = balance - escrows[i].amount
    /\ IF refundToBuyer
       THEN /\ escrows'[i].status = REFUNDED
            /\ payouts'[i] = RefundOf(escrows[i])
       ELSE /\ escrows'[i].status = DELIVERED
            /\ payouts'[i] = SplitOf(escrows[i], platformFee, platformWallet)

\* C10 as amended: resolveDispute by the owner on a DISPUTED escrow, whoever
\* raised the dispute, either commits - with refundToBuyer the status becomes
\* REFUNDED and the buyer receives the full amount, no fee; without it the
\* status becomes DELIVERED, the platform account receives the fee and the
\* seller the rest - or, when a transfer fails, is rejected with nothing
\* changed.
C10_ResolveOutcome ==
    [][(last'.op = "resolveDispute")
       => \A i \in Created, b \in BOOLEAN :
            (escrows[i].status = DISPUTED /\ resolveDispute(owner, i, b))
            => \/ ResolvedInStep(i, b)
               \/ (last'.result = ErrTransfer /\ UNCHANGED ledger)]_vars

\* C10 as stated: the owner's resolveDispute on a DISPUTED escrow always
\* commits with the outcome chosen.
C10_Original ==
    [][(last'.op = "resolveDispute")
       => \A i \in Created, b \in BOOLEAN :
            (escrows[i].status = DISPUTED /\ resolveDispute(owner, i, b))
            => ResolvedInStep(i, b)]_vars

\* a dispute raised by the seller was resolved for the seller with a fee
C10_Witness ==
    /\ last = [op |-> "resolveDispute", result |-> OK]
    /\ \E i \in Created :
         /\ escrows[i].status = DELIVERED
         /\ Len(payouts[i]) = 2
         /\ \E e \in events[i] :
              /\ e.type = "DisputeRaised"
              /\ e.raiser = escrows[i].seller

(* ----------------------------------------------------------------- C11 *)
\* C11: a requestRefund that commits moves one PENDING escrow to REFUNDED and
\* makes one transfer, of the whole stored amount, to its buyer; no other
\* account is paid, at any fee rate, and nothing else of any record changes.
C11_RefundInFull ==
    [][(last'.op = "requestRefund" /\ last'.result = OK)
       => \E i \in Created :
            /\ escrows[i].status = PENDING
            /\ escrows' = [escrows EXCEPT ![i].status = REFUNDED]
            /\ payouts' = [payouts EXCEPT ![i] = RefundOf(escrows[i])]
            /\ balance' = balance - escrows[i].amount
            /\ swept' = swept]_vars

\* a refund paid in full while the fee rate is not zero
C11_Witness ==
    /\ last = [op |-> "requestRefund", result |-> OK]
    /\ platformFee > 0
    /\ \E i \in Created :
         /\ escrows[i].status = REFUNDED
         /\ escrows[i].amount > 0
         /\ payouts[i] = RefundOf(escrows[i])

(* ----------------------------------------------------------------- C16 *)
\* C16: on a created PENDING escrow, confirmDelivery and raiseDispute by a
\* caller that is neither its buyer nor its seller (the owner too) revert as
\* Forbidden ("Only buyer or seller ..."), and requestRefund by a caller other
\* than its buyer (the seller too, before and after the deadline) reverts as
\* Forbidden ("Only buyer ..."); the ledger is unchanged.
C16_StrangersRejected ==
    [][/\ (last'.op = "confirmDelivery")
          => \A c \in Callers, i \in Created :
               (/\ escrows[i].status = PENDING
                /\ c \notin {escrows[i].buyer, escrows[i].seller}
                /\ confirmDelivery(c, i))
               => (last'.result = ErrOnlyParticipant /\ UNCHANGED ledger)
       /\ (last'.op = "raiseDispute")
          => \A c \in Callers, i \in Created :
               (/\ escrows[i].status = PENDING
                /\ c \notin {escrows[i].buyer, escrows[i].seller}
                /\ raiseDispute(c, i))
               => (last'.result = ErrOnlyParticipant /\ UNCHANGED ledger)
       /\ (last'.op = "requestRefund")
          => \A c \in Callers, i \in Created :
               (/\ escrows[i].status = PENDING
                /\ c # escrows[i].buyer
                /\ requestRefund(c, i))
               => (last'.result = ErrOnlyBuyer /\ UNCHANGED ledger)]_vars

\* a caller other than the buyer asked for the refund of an overdue PENDING
\* escrow
C16_Witness ==
    /\ last = [op |-> "requestRefund", result |-> ErrOnlyBuyer]
    /\ \E i \in Created :
         /\ escrows[i].status = PENDING
         /\ now > escrows[i].deliveryDeadline

(* ----------------------------------------------------------------- C17 *)
\* C17: raiseDispute by the buyer or the seller of a created PENDING escrow
\* commits; the status of that escrow becomes DISPUTED and a DisputeRaised
\* record is logged, while its other fields, every other escrow, the balance,
\* the transfers made and the configuration stay as they were.  On a created
\* escrow that is not PENDING it reverts as InvalidState ("Escrow is not
\* pending") with the ledger unchanged.
C17_DisputeFrame ==
    [][(last'.op = "raiseDispute")
       => \A c \in Callers, i \in Created :
            /\ (/\ escrows[i].status = PENDING
                /\ c \in {escrows[i].buyer, escrows[i].seller}
                /\ raiseDispute(c, i))
               => /\ last'.result = OK
                  /\ escrows' = [escrows EXCEPT ![i].status = DISPUTED]
                  /\ events' = [events EXCEPT ![i] = @ \cup
                                 {[type |-> "DisputeRaised", escrowId |-> i,
                                   raiser |-> c]}]
                  /\ UNCHANGED <<nextEscrowId, platformFee, platformWallet,
                                 owner, balance, payouts, swept, now>>
            /\ (escrows[i].status # PENDING /\ raiseDispute(c, i))
               => (last'.result = ErrNotPending /\ UNCHANGED ledger)]_vars

\* a dispute raised after the deadline on an escrow the seller had confirmed
C17_Witness ==
    /\ last = [op |-> "raiseDispute", result |-> OK]
    /\ \E i \in Created :
         /\ escrows[i].status = DISPUTED
         /\ escrows[i].sellerConfirmed
         /\ now > escrows[i].deliveryDeadline
         /\ balance >= escrows[i].amount

(* ----------------------------------------------------------------- C19 *)
AdminOps == {"updatePlatformFee", "updatePlatformWallet", "emergencyWithdraw"}

\* C19: updatePlatformFee, updatePlatformWallet and emergencyWithdraw by a
\* caller other than the owner revert as Forbidden ("Only owner ...") and
\* updatePlatformWallet(address(0)) by the owner reverts as InvalidInput
\* ("Invalid wallet address"), with fee rate, fee recipient, balance and the
\* rest of the ledger unchanged; and in every step of any operation the fee
\* rate changes only by a committed updatePlatformFee of the owner, the fee
\* recipient only by a committed updatePlatformWallet of the owner.
C19_AdminOnlyOwner ==
    [][/\ (last'.op \in AdminOps)
          => /\ \A c \in Callers \ {owner} :
                  (\/ \E n \in Fees : updatePlatformFee(c, n)
                   \/ \E w \in Wallets : updatePlatformWallet(c, w)
                   \/ emergencyWithdraw(c))
                  => (last'.result = ErrOnlyOwner /\ UNCHANGED ledger)
             /\ updatePlatformWallet(owner, Null)
                => (last'.result = ErrWallet /\ UNCHANGED ledger)
       /\ (platformFee' # platformFee)
          => /\ last' = [op |-> "updatePlatformFee", result |-> OK]
             /\ updatePlatformFee(owner, platformFee')
       /\ (platformWallet' # platformWallet)
          => /\ last' = [op |-> "updatePlatformWallet", result |-> OK]
             /\ updatePlatformWallet(owner, platformWallet')]_vars

\* an account other than the owner tried to withdraw while deposits were held
C19_Witness ==
    /\ last = [op |-> "emergencyWithdraw", result |-> ErrOnlyOwner]
    /\ balance > 0
    /\ swept = 0

(* ----------------------------------------------------------------- C18 *)
\* the outcome of updatePlatformFee(n) sent by the owner
OwnerFeeUpdate(n) ==
    IF n <= 1000
    THEN /\ last'.result = OK
         /\ platformFee' = n
         /\ UNCHANGED <<escrows, nextEscrowId, platformWallet, owner, balance,
                        events, payouts, swept>>
    ELSE /\ last'.result = ErrFee
         /\ UNCHANGED ledger

\* C18 as amended: sent by the owner, updatePlatformFee(n) commits and sets
\* the rate to n exactly when n <= 1000 (1000 commits) and reverts as
\* InvalidInput ("Fee cannot exceed 10%") when n > 1000 (1001 reverts); sent
\* by another account it reverts as Forbidden whatever n is; so the rate,
\* 250 at deployment, is at most 1000 in every reachable state.
C18_FeeCap ==
    /\ platformFee = 250
    /\ [][/\ platformFee' <= 1000
          /\ (last'.op = "updatePlatformFee")
             => \A c \in Callers, n \in AdminFees :
                  updatePlatformFee(c, n)
                  => IF c = owner
                     THEN OwnerFeeUpdate(n)
                     ELSE last'.result = ErrOnlyOwner /\ UNCHANGED ledger]_vars

\* C18 as stated: updatePlatformFee(1001) fails as InvalidInput and
\* updatePlatformFee(1000) commits, whoever sends it.
C18_Original ==
    [][(last'.op = "updatePlatformFee")
       => \A c \in Callers :
            /\ updatePlatformFee(c, 1001) => last'.result = ErrFee
            /\ updatePlatformFee(c, 1000)
               => (last'.result = OK /\ platformFee' = 1000)]_vars

\* the owner has set the rate to the cap, and a later updatePlatformFee(1001)
\* of the owner was refused
C18_Witness ==
    /\ platformFee = 1000
    /\ last = [op |-> "updatePlatformFee", result |-> ErrFee]

(* ----------------------------------------------------------------- C12 *)
\* the arguments createEscrow must refuse: no funds attached, the null
\* account or the caller as seller, deliveryDays outside 1 .. 365
BadCreation(c, s, v, d) == v = 0 \/ s = Null \/ s = c \/ d < 1 \/ d > 365

\* C12: createEscrow with no funds, with the null account or the caller as
\* seller, or with deliveryDays below 1 or above 365 (0 and 366) reverts as
\* InvalidInput and leaves records, nextEscrowId and balance as they were;
\* with any other arguments (deliveryDays 1 and 365 among them) it commits.
C12_CreateRejected ==
    [][(last'.op = "createEscrow")
       => \A c \in CreateCallers, s \in CreateSellers, v \in CreateValues,
             t \in Descriptions, d \in CreateDays :
            createEscrow(c, s, v, t, d)
            => IF BadCreation(c, s, v, d)
               THEN /\ last'.result \in {ErrAmount, ErrSeller, ErrSameParty, ErrDays}
                    /\ UNCHANGED ledger
               ELSE last'.result = OK]_vars

\* a creation with deliveryDays out of range was refused after one with 365
\* days and one with 1 day had been accepted
C12_Witness ==
    /\ last = [op |-> "createEscrow", result |-> ErrDays]
    /\ \E i, j \in Created :
         /\ escrows[i].deliveryDeadline = escrows[i].createdAt + 365 * 86400
         /\ escrows[j].deliveryDeadline = escrows[j].createdAt + 86400
    /\ balance = 200

(* ----------------------------------------------------------------- C13 *)
\* C13: a createEscrow that commits writes, at the id it assigns, the record
\* with the caller as buyer, the seller and description given, the funds
\* attached as amount, status PENDING, both flags false, createdAt = now and
\* deliveryDeadline = now + deliveryDays * 86400, leaves every other record
\* alone, and the balance of the contract grows by the funds attached.
C13_CreateStores ==
    [][(last'.op = "createEscrow" /\ last'.result = OK)
       => \A c \in CreateCallers, s \in CreateSellers, v \in CreateValues,
             t \in Descriptions, d \in CreateDays :
            createEscrow(c, s, v, t, d)
            => /\ v > 0
               /\ escrows' = [escrows EXCEPT ![nextEscrowId] =
                    [buyer |-> c, seller |-> s, amount |-> v,
                     status |-> PENDING, createdAt |-> now,
                     deliveryDeadline |-> now + d * 86400,
                     itemDescription |-> t,
                     buyerConfirmed |-> FALSE, sellerConfirmed |-> FALSE]]
               /\ balance' = balance + v]_vars

\* a second escrow, of 365 days, created in a contract deployed at time 1000
C13_Witness ==
    /\ last = [op |-> "createEscrow", result |-> OK, value |-> 2]
    /\ now = 1000
    /\ escrows[2].createdAt = 1000
    /\ escrows[2].deliveryDeadline = 1000 + 365 * 86400
    /\ balance = escrows[1].amount + escrows[2].amount

(* ----------------------------------------------------------------- C14 *)
\* exactly the ids 1 .. nextEscrowId - 1 carry a record, each announced once
IdsDense ==
    /\ nextEscrowId >= 1
    /\ \A i \in DOMAIN escrows :
         /\ (escrows[i] # ZeroEscrow) <=> (1 <= i /\ i < nextEscrowId)
         /\ Cardinality({e \in events[i] : e.type = "EscrowCreated"})
              = (IF 1 <= i /\ i < nextEscrowId THEN 1 ELSE 0)

\* C14: nextEscrowId is 1 at deployment; a createEscrow that commits returns
\* the current nextEscrowId, writes to that id, which had no record, and
\* advances nextEscrowId by one; a rejected one leaves nextEscrowId alone; no
\* other step changes it.  So the k-th creation returns k, no id is assigned
\* twice, and exactly the ids 1 .. nextEscrowId - 1 have a record.
C14_SequentialIds ==
    /\ nextEscrowId = 1
    /\ IdsDense
    /\ [][/\ IdsDense'
          /\ IF last'.op = "createEscrow" /\ last'.result = OK
             THEN /\ last'.value = nextEscrowId
                  /\ nextEscrowId' = nextEscrowId + 1
                  /\ escrows[nextEscrowId] = ZeroEscrow
                  /\ escrows'[nextEscrowId] # ZeroEscrow
                  /\ \A i \in DOMAIN escrows \ {nextEscrowId} :
                       escrows'[i] = escrows[i]
             ELSE nextEscrowId' = nextEscrowId]_vars

\* the third creation has returned id 3
C14_Witness ==
    /\ last = [op |-> "createEscrow", result |-> OK, value |-> 3]
    /\ nextEscrowId = 4
    /\ \A i \in 1 .. 3 : escrows[i].amount > 0

(* ----------------------------------------------------------------- C15 *)
\* the ids in the mapping that createEscrow has not assigned: 0 and those
\* from nextEscrowId on
NeverCreated == DOMAIN escrows \ Created

\* C15: getEscrow, isDeliveryOverdue, confirmDelivery, requestRefund,
\* raiseDispute and resolveDispute on an id that was never created, 0
\* included, revert as NotFound ("Escrow does not exist") for every caller.
C15_UnknownIdNotFound ==
    [][\A i \in NeverCreated :
         /\ (getEscrow(i) \/ isDeliveryOverdue(i))
            => last'.result = ErrNotExists
         /\ \A c \in Callers :
              (\/ confirmDelivery(c, i)
               \/ requestRefund(c, i)
               \/ raiseDispute(c, i)
               \/ \E b \in BOOLEAN : resolveDispute(c, i, b))
              => last'.result = ErrNotExists]_vars

(* ----------------------------------------------------------------- C20 *)
\* C20: getUserEscrows(user) returns, and writes nothing, the array of the
\* created ids whose buyer or seller is user, in ascending order and so each
\* once, as the ledger is at the call; empty when there is none.
C20_ListByParticipant ==
    [][(last'.op = "getUserEscrows")
       => \A u \in Users :
            getUserEscrows(u)
            => LET result == last'.value
               IN /\ last'.result = OK
                  /\ {result[k] : k \in 1 .. Len(result)}
                       = {i \in Created :
                            escrows[i].buyer = u \/ escrows[i].seller = u}
                  /\ \A k \in 1 .. (Len(result) - 1) : result[k] < result[k + 1]
                  /\ UNCHANGED <<ledger, now>>]_vars

\* the listing of an account that takes part in the first and the third of
\* three escrows, as buyer of one and seller of the other
C20_Witness ==
    /\ last.op = "getUserEscrows"
    /\ last.value = << 1, 3 >>
    /\ nextEscrowId = 4
    /\ escrows[1].buyer = escrows[3].seller

(* ----------------------------------------------------------------- C21 *)
\* C21: in every step, a confirmation flag that is set stays set; a flag
\* changes only in a committed confirmDelivery on an escrow that is PENDING,
\* sent by the buyer for buyerConfirmed and by the seller for
\* sellerConfirmed; the flags of an escrow that is not PENDING do not change;
\* and confirmDelivery on a created escrow that is not PENDING reverts as
\* InvalidState ("Escrow is not pending") for every caller.
C21_FlagsMonotone ==
    [][/\ \A i \in DOMAIN escrows :
            /\ escrows[i].buyerConfirmed => escrows'[i].buyerConfirmed
            /\ escrows[i].sellerConfirmed => escrows'[i].sellerConfirmed
            /\ (escrows'[i].buyerConfirmed # escrows[i].buyerConfirmed)
               => /\ last' = [op |-> "confirmDelivery", result |-> OK]
                  /\ escrows[i].status = PENDING
                  /\ confirmDelivery(escrows[i].buyer, i)
            /\ (escrows'[i].sellerConfirmed # escrows[i].sellerConfirmed)
               => /\ last' = [op |-> "confirmDelivery", result |-> OK]
                  /\ escrows[i].status = PENDING
                  /\ confirmDelivery(escrows[i].seller, i)
            /\ (escrows[i].status # PENDING)
               => /\ escrows'[i].buyerConfirmed = escrows[i].buyerConfirmed
                  /\ escrows'[i].sellerConfirmed = escrows[i].sellerConfirmed
       /\ (last'.op = "confirmDelivery")
          => \A c \in Callers, i \in Created :
               (escrows[i].status # PENDING /\ confirmDelivery(c, i))
               => (last'.result = ErrNotPending /\ UNCHANGED ledger)]_vars

\* a confirmation was refused on a DISPUTED escrow that the seller had
\* confirmed while it was PENDING
C21_Witness ==
    /\ last = [op |-> "confirmDelivery", result |-> ErrNotPending]
    /\ \E i \in Created :
         /\ escrows[i].status = DISPUTED
         /\ escrows[i].sellerConfirmed
         /\ ~escrows[i].buyerConfirmed

(* ----------------------------------------------------------------- C22 *)
\* the fields of a record that are fixed at creation
Terms(e) ==
    [buyer |-> e.buyer, seller |-> e.seller, amount |-> e.amount,
     createdAt |-> e.createdAt, deliveryDeadline |-> e.deliveryDeadline,
     itemDescription |-> e.itemDescription]

\* buyer, seller and amount of created escrow i are those its EscrowCreated
\* record announced, and buyer and seller differ
AsCreated(i) ==
    /\ escrows[i].buyer # escrows[i].seller
    /\ \E e \in events[i] :
         /\ e.type = "EscrowCreated"
         /\ e.buyer = escrows[i].buyer
         /\ e.seller = escrows[i].seller
         /\ e.amount = escrows[i].amount

\* C22: no step of any operation changes buyer, seller, amount, createdAt,
\* deliveryDeadline or itemDescription of a created escrow, and in every
\* reachable state the buyer and the seller of every created escrow differ.
C22_TermsImmutable ==
    /\ \A i \in Created : AsCreated(i)
    /\ [][/\ \A i \in Created : Terms(escrows'[i]) = Terms(escrows[i])
          /\ \A i \in Created' : AsCreated(i)']_vars

\* an escrow that was confirmed by the seller, disputed and resolved, under a
\* fee rate changed since its creation, with the terms it was created with
C22_Witness ==
    /\ platformFee # DefaultFee
    /\ \E i \in Created :
         /\ escrows[i].status \in {DELIVERED, REFUNDED}
         /\ escrows[i].sellerConfirmed
         /\ HasEvent("DisputeRaised", i)
         /\ AsCreated(i)
         /\ escrows[i].amount = 100

(* ----------------------------------------------------------------- C27 *)
\* C27: in every reachable state every escrow with buyerConfirmed set is
\* DELIVERED, and a requestRefund or raiseDispute that the buyer of such an
\* escrow sends reverts with "Escrow is not pending" and changes nothing.
C27_BuyerConfirmedIsDelivered ==
    /\ \A i \in DOMAIN escrows :
         escrows[i].buyerConfirmed => escrows[i].status = DELIVERED
    /\ [][/\ \A i \in DOMAIN escrows :
               escrows'[i].buyerConfirmed => escrows'[i].status = DELIVERED
          /\ (last'.op \in {"requestRefund", "raiseDispute"})
             => \A i \in Created :
                  (/\ escrows[i].buyerConfirmed
                   /\ \/ requestRefund(escrows[i].buyer, i)
                      \/ raiseDispute(escrows[i].buyer, i))
                  => (last'.result = ErrNotPending /\ UNCHANGED ledger)]_vars

\* the buyer confirmed, the deadline passed, and the buyer's requestRefund
\* was refused
C27_Witness ==
    /\ last = [op |-> "requestRefund", result |-> ErrNotPending]
    /\ \E i \in Created :
         /\ escrows[i].buyerConfirmed
         /\ escrows[i].status = DELIVERED
         /\ now > escrows[i].deliveryDeadline

(* ----------------------------------------------------------------- C28 *)
\* the calls only the owner can commit
OwnerOps == AdminOps \cup {"resolveDispute"}

\* C28: in every step, a DISPUTED escrow whose status changes or to which a
\* payout is made is the subject of a committed resolveDispute sent by the
\* owner; confirmDelivery, requestRefund and raiseDispute sent by its buyer or
\* its seller revert with "Escrow is not pending", before and after the
\* deadline; and a step that is not a committed owner call (the passage of
\* time included) leaves the escrow DISPUTED, unpaid, and its deposit in the
\* contract.
C28_DisputedUntilResolved ==
    [][\A i \in Created :
         (escrows[i].status = DISPUTED)
         => /\ (escrows'[i] # escrows[i] \/ payouts'[i] # payouts[i])
               => /\ last'.op = "resolveDispute"
                  /\ last'.result = OK
                  /\ \E r \in BOOLEAN : resolveDispute(owner, i, r)
            /\ (last'.op \in {"confirmDelivery", "requestRefund", "raiseDispute"})
               => \A c \in {escrows[i].buyer, escrows[i].seller} :
                    (\/ confirmDelivery(c, i)
                     \/ requestRefund(c, i)
                     \/ raiseDispute(c, i))
                    => (last'.result = ErrNotPending /\ UNCHANGED ledger)
            /\ ~(last'.op \in OwnerOps /\ last'.result = OK)
               => /\ escrows'[i] = escrows[i]
                  /\ payouts'[i] = << >>
                  /\ swept' = swept
                  /\ (balance >= Held(escrows, Created)
                      => balance' >= Held(escrows', Created'))]_vars

\* a DISPUTED escrow past its deadline whose buyer asked for the refund and
\* was refused
C28_Witness ==
    /\ last = [op |-> "requestRefund", result |-> ErrNotPending]
    /\ \E i \in Created :
         /\ escrows[i].status = DISPUTED
         /\ now > escrows[i].deliveryDeadline
         /\ payouts[i] = << >>
         /\ balance >= escrows[i].amount

(* ----------------------------------------------------------------- C25 *)
\* the deposit the EscrowCreated record of escrow i announced
Deposited(i) ==
    (CHOOSE e \in events[i] : e.type = "EscrowCreated").amount

RECURSIVE SumOver(_, _)
SumOver(F(_), ids) ==
    IF ids = {} THEN 0
    ELSE LET i == CHOOSE x \in ids : TRUE
         IN F(i) + SumOver(F, ids \ {i})

RECURSIVE SumSeq(_)
SumSeq(p) == IF p = << >> THEN 0 ELSE Head(p).amount + SumSeq(Tail(p))

PaidOut(i) == SumSeq(payouts[i])

\* every transfer made went to the buyer, the seller or the platform account
\* of the time; the range of the platform account is Deployer and Wallets
PaidToParties(i) ==
    \A k \in 1 .. Len(payouts[i]) :
        payouts[i][k].to \in {escrows[i].buyer, escrows[i].seller, Deployer, Vault}

RaceOpen(i) ==
    /\ requestRefundGuard(escrows[i].buyer, i) = OK
    /\ confirmDeliveryGuard(escrows[i].buyer, i) = OK
    /\ raiseDisputeGuard(escrows[i].buyer, i) = OK
    /\ raiseDisputeGuard(escrows[i].seller, i) = OK

\* the four calls are refused on escrow i because it is not PENDING
RaceClosed(i) ==
    /\ requestRefundGuard(escrows[i].buyer, i) = ErrNotPending
    /\ confirmDeliveryGuard(escrows[i].buyer, i) = ErrNotPending
    /\ raiseDisputeGuard(escrows[i].buyer, i) = ErrNotPending
    /\ raiseDisputeGuard(escrows[i].seller, i) = ErrNotPending

\* C26: for a PENDING escrow past its deadline the buyer's requestRefund, the
\* buyer's confirmDelivery and raiseDispute of buyer and seller pass their
\* requires; the step that takes the escrow out of PENDING is a commit of one
\* of them and closes all four; and once the escrow is DISPUTED the deposit
\* leaves the contract only in a committed resolveDispute of the owner.
C26_DeadlineRace ==
    [][\A i \in Created :
         /\ (escrows[i].status = PENDING /\ now > escrows[i].deliveryDeadline)
            => RaceOpen(i)
         /\ (escrows[i].status = PENDING /\ escrows'[i].status # PENDING)
            => /\ last'.op \in {"requestRefund", "confirmDelivery", "raiseDispute"}
               /\ last'.result = OK
               /\ RaceClosed(i)'
         /\ (escrows[i].status = DISPUTED /\ balance' < balance)
            => /\ last'.op = "resolveDispute"
               /\ last'.result = OK
               /\ \E r \in BOOLEAN : resolveDispute(owner, i, r)]_vars

(* ----------------------------------------------------------------- C23 *)
CreatedRecord(i, e) ==
    [type |-> "EscrowCreated", escrowId |-> i,
     buyer |-> e.buyer, seller |-> e.seller, amount |-> e.amount]

ConfirmedRecord(i, c) ==
    [type |-> "DeliveryConfirmed", escrowId |-> i, confirmer |-> c]

CompletedRecord(i, e, bps) ==
    [type |-> "EscrowCompleted", escrowId |-> i,
     sellerAmount |-> e.amount - FloorFee(e.amount, bps),
     platformFeeAmount |-> FloorFee(e.amount, bps)]

RefundedRecord(i, e) ==
    [type |-> "EscrowRefunded", escrowId |-> i, refundAmount |-> e.amount]

DisputedRecord(i, c) ==
    [type |-> "DisputeRaised", escrowId |-> i, raiser |-> c]

\* the log after the records rs of escrow i were emitted
Logged(i, rs) == [events EXCEPT ![i] = @ \cup rs]

\* the status the records of an escrow stand for
StatusFrom(rs) ==
    IF \E e \in rs : e.type = "EscrowCompleted" THEN DELIVERED
    ELSE IF \E e \in rs : e.type = "EscrowRefunded" THEN REFUNDED
    ELSE IF \E e \in rs : e.type = "DisputeRaised" THEN DISPUTED
    ELSE PENDING

WeekScenarioConfirm ==
    /\ last'.op = "confirmDelivery"
    /\ nextEscrowId = FirstEscrowId + 1
    /\ platformFee = DefaultFee
    /\ escrows[FirstEscrowId].status = PENDING
    /\ escrows[FirstEscrowId].amount = 100
    /\ escrows[FirstEscrowId].seller \notin NoReceive
    /\ escrows[FirstEscrowId].deliveryDeadline
         = escrows[FirstEscrowId].createdAt + 7 * DAY
    /\ confirmDelivery(escrows[FirstEscrowId].buyer, FirstEscrowId)

\* what seller and platform account have received from escrow i, doubled
TwiceReceived(i, who) ==
    2 * SumSeq(SelectSeq(payouts[i], LAMBDA p : p.to = who))

C29_WalletNotNull ==
    /\ platformWallet # Null
    /\ \A i \in Created :
         \A k \in 1 .. Len(payouts[i]) : payouts[i][k].to # Null

(* ----------------------------------------------------------------- C30 *)
\* what each function of the hook returns when it does nothing
FailureValue ==
    [createEscrow |-> JsNull, confirmDelivery |-> "false",
     requestRefund |-> "false", raiseDispute |-> "false",
     getEscrowById |-> JsNull, loadUserEscrows |-> "undefined"]

\* C30: with ESCROW_CONTRACT_ADDRESS null, in every state reached by
\* connects, disconnects, changes of signer, runs of the effects and calls of
\* the hook's functions: contract is null, contractDeployed is false, the
\* function called last returned its failure value (createEscrow null,
\* confirmDelivery, requestRefund and raiseDispute false, getEscrowById null),
\* no transaction was submitted, and loadUserEscrows has never called
\* setLoading.
C30_HookWithoutContract ==
    (ESCROW_CONTRACT_ADDRESS = JsNull)
    => /\ hook.contract = JsNull
       /\ ~hook.contractDeployed
       /\ hook.returned.fn \in DOMAIN FailureValue
          => hook.returned.value = FailureValue[hook.returned.fn]
       /\ hook.submitted = {}
       /\ ~hook.setLoadingCalled
       /\ ~hook.loading

\* the wallet is connected with a signer and an account, both effects have
\* run, and createEscrow was called and refused
C30_Witness ==
    /\ ESCROW_CONTRACT_ADDRESS = JsNull
    /\ hook.signer # JsNull /\ hook.isConnected /\ hook.account # JsNull
    /\ ~hook.connectEffectDue /\ ~hook.loadEffectDue
    /\ hook.returned = [fn |-> "createEscrow", value |-> JsNull]
    /\ hook.toast = "Smart contract not available. Please deploy."
    /\ hook.contract = JsNull

====
